---- MODULE Spec2Model ----
(***************************************************************************)
(* A model of src/src/hd44780.py: the bit-banged HD44780 driver            *)
(* (HardwareInterface), the GPIO lines it drives and the LCD controller    *)
(* behind those lines.                                                     *)
(*                                                                         *)
(* The protocol methods (en_gpio_out, read, write, do_cmd, put_char,       *)
(* set_line, start, clear) are operators of the same name that map the     *)
(* object (a record `self`) to the object after the call.  Every pin       *)
(* operation and every delay is appended to self.trace together with the   *)
(* levels of all lines after it, so that the states inside a call can be   *)
(* inspected.  The methods that issue many transfers (reset, put_line,     *)
(* clear_lin, push_line) run one statement per step on a call stack; the   *)
(* actions are named after the source line they execute.                   *)
(***************************************************************************)
EXTENDS Integers, Sequences, FiniteSets, TLC

VARIABLES
    pinout,          \* self.pinout: [D |-> number of data lines, RWn |-> wired?]
    mode,            \* self.mode
    output_enabled,  \* self.output_enabled
    line_val,        \* self.line_val
    hw_pin,          \* self.hw_pin: direction and level of each line
    lcd,             \* the HD44780 behind the lines
    stack,           \* frames of the methods in progress, innermost last
    trace,           \* pin operations and delays of the statement just executed
    xfers,           \* what the controller was sent since the call was invoked
    call,            \* the method the caller invoked, with its arguments
    pre,             \* the object as it was when that method was invoked
    exc,             \* the exception the call raised ("" when none)
    ret,             \* the value the call returned (<<>> for None)
    was_reset        \* some reset() has returned normally

vars == <<pinout, mode, output_enabled, line_val, hw_pin, lcd, stack, trace, xfers,
          call, pre, exc, ret, was_reset>>

(***************************************************************************)
(* Class constants                                                          *)
(***************************************************************************)
DATA_8 == 1
DATA_4 == 2

L1_START == 0
L1_END == 39
L2_START == 64
L2_END == 103

LineWidth == 16

COMMANDS ==
    [ DEFAULT       |-> [opcode |-> 0,   duration |-> 37],
      DISPLAY_ON    |-> [opcode |-> 14,  duration |-> 37],
      DISPLAY_OFF   |-> [opcode |-> 8,   duration |-> 37],
      DISPLAY_CLEAR |-> [opcode |-> 1,   duration |-> 1500],
      CURSOR_HOME   |-> [opcode |-> 2,   duration |-> 1520],
      MODE_AUTOINC  |-> [opcode |-> 6,   duration |-> 4],
      FUNCSEL_8BIT  |-> [opcode |-> 56,  duration |-> 37],
      FUNCSEL_4BIT  |-> [opcode |-> 40,  duration |-> 37],
      DDRAM_SET     |-> [opcode |-> 128, duration |-> 37] ]

\* cmd_pair is a namedtuple: pair[0] is the opcode, pair[1] the duration
cmd_pair_index(pair, i) == IF i = 0 THEN pair.opcode ELSE pair.duration

(***************************************************************************)
(* Python's integer and string primitives                                   *)
(***************************************************************************)
RECURSIVE Pow2(_)
Pow2(n) == IF n = 0 THEN 1 ELSE 2 * Pow2(n - 1)

\* (v >> i) & 0x1
Bit(v, i) == (v \div Pow2(i)) % 2

\* a | b on non-negative integers
RECURSIVE BitOr(_, _)
BitOr(a, b) ==
    IF a = 0 THEN b
    ELSE IF b = 0 THEN a
    ELSE (IF a % 2 = 1 \/ b % 2 = 1 THEN 1 ELSE 0) + 2 * BitOr(a \div 2, b \div 2)

Chars == {" ", "A", "B"}

\* ord(char)
ord(char) == CASE char = " " -> 32 [] char = "A" -> 65 [] char = "B" -> 66

\* " " * n
RECURSIVE Spaces(_)
Spaces(n) == IF n = 0 THEN <<>> ELSE <<" ">> \o Spaces(n - 1)

(***************************************************************************)
(* The LCD controller: it latches the data lines on the falling edge of E  *)
(* while R/W' is low, one byte per edge with an 8-bit interface and one    *)
(* nibble per edge (DB4..DB7, high nibble first) with a 4-bit interface.   *)
(***************************************************************************)
DdramAddrs == (L1_START .. L1_END) \cup (L2_START .. L2_END)

BlankDdram == [a \in DdramAddrs |-> 32]

LcdPowerOn ==
    [ attached |-> TRUE,
      DL       |-> 8,                  \* interface width
      nib      |-> <<>>,               \* high nibble waiting for its low nibble
      AC       |-> 0,                  \* address counter
      ID       |-> 1,                  \* 1: the counter increments after a write
      cgram    |-> FALSE,              \* the counter addresses CGRAM
      ddram    |-> BlankDdram ]

\* No controller behind the lines (a recording pin double only)
LcdDetached == [LcdPowerOn EXCEPT !.attached = FALSE]

LcdAdvance(l) ==
    IF l.ID = 1
    THEN (IF l.AC = L1_END THEN L2_START ELSE IF l.AC = L2_END THEN L1_START ELSE (l.AC + 1) % 128)
    ELSE (IF l.AC = L2_START THEN L1_END ELSE IF l.AC = L1_START THEN L2_END ELSE (l.AC + 127) % 128)

\* The controller executes one instruction (rs = 0) or data write (rs = 1)
LcdExec(l, rs, byte) ==
    IF rs = 1 THEN
        [l EXCEPT !.ddram = IF ~l.cgram /\ l.AC \in DdramAddrs
                            THEN [@ EXCEPT ![l.AC] = byte] ELSE @,
                  !.AC = LcdAdvance(l)]
    ELSE IF byte >= 128 THEN [l EXCEPT !.AC = byte - 128, !.cgram = FALSE]
    ELSE IF byte >= 64 THEN [l EXCEPT !.AC = byte - 64, !.cgram = TRUE]
    ELSE IF byte >= 32 THEN [l EXCEPT !.DL = IF Bit(byte, 4) = 1 THEN 8 ELSE 4, !.nib = <<>>]
    ELSE IF byte >= 8 THEN l           \* shifts, display on/off: DDRAM untouched
    ELSE IF byte >= 4 THEN [l EXCEPT !.ID = Bit(byte, 1)]
    ELSE IF byte >= 2 THEN [l EXCEPT !.AC = 0, !.cgram = FALSE]
    ELSE IF byte = 1 THEN [l EXCEPT !.ddram = BlankDdram,
                                    !.AC = 0, !.ID = 1, !.cgram = FALSE]
    ELSE l

\* The controller's DB0..DB7 as wired: 8 host lines are DB0..DB7, 4 host lines
\* are DB4..DB7 (DB0..DB3 left open, read as low)
LcdBus(po, hw) ==
    LET v == IF hw.D_dir = "OUT" THEN hw.D ELSE 0
    IN  IF po.D = 4 THEN (v % 16) * 16 ELSE v % 256

LcdLatch(l, po, hw) ==
    LET db == LcdBus(po, hw)
    IN  IF l.DL = 8 THEN LcdExec(l, hw.RS, db)
        ELSE IF l.nib = <<>> THEN [l EXCEPT !.nib = <<db \div 16>>]
        ELSE LcdExec([l EXCEPT !.nib = <<>>], hw.RS, l.nib[1] * 16 + db \div 16)

\* The controller's reaction to a change of the lines from `old` to `new`
LcdReact(l, po, old, new) ==
    IF l.attached /\ old.E = 1 /\ new.E = 0 /\ new.RWn = 0
    THEN LcdLatch(l, po, new)
    ELSE l

(***************************************************************************)
(* machine.Pin and utime: each operation changes one line (or the          *)
(* direction of the data lines) and is recorded with the resulting levels. *)
(***************************************************************************)
Record(self, ev, arg, hw) ==
    [self EXCEPT !.hw_pin = hw,
                 !.lcd = LcdReact(self.lcd, self.pinout, self.hw_pin, hw),
                 !.trace = Append(@, [ev |-> ev, arg |-> arg, pins |-> hw])]

\* Pin.high() / Pin.low() on E, RS or RWn
pin_high(self, pin) == Record(self, pin, 1, [self.hw_pin EXCEPT ![pin] = 1])
pin_low(self, pin) == Record(self, pin, 0, [self.hw_pin EXCEPT ![pin] = 0])

\* for elem in self.hw_pin.D: high() if bit index(elem) of value is set else low()
RECURSIVE DataBits(_, _, _)
DataBits(value, i, n) ==
    IF i = n THEN 0 ELSE Bit(value, i) * Pow2(i) + DataBits(value, i + 1, n)

drive_D(self, value) ==
    LET v == DataBits(value, 0, self.pinout.D)
    IN  Record(self, "D", v, [self.hw_pin EXCEPT !.D = v])

\* [Gpio(pin_idx, Gpio.OUT, value=0) for pin_idx in self.pinout.D]
config_D_out(self) ==
    Record(self, "D_dir", 1, [self.hw_pin EXCEPT !.D_dir = "OUT", !.D = 0])

\* [Gpio(pin_idx, Gpio.IN, Gpio.PULL_DOWN) for pin_idx in self.pinout.D]
config_D_in(self) ==
    Record(self, "D_dir", 0, [self.hw_pin EXCEPT !.D_dir = "IN", !.D = 0])

sleep_us(self, n) == Record(self, "sleep_us", n, self.hw_pin)
sleep_ms(self, n) == Record(self, "sleep_ms", n, self.hw_pin)

raise(self, what) == [self EXCEPT !.exc = what]



(***************************************************************************)
(* HardwareInterface: construction and the protocol methods                 *)
(***************************************************************************)
\* __init__(pinout)
Construct(po) ==
    [ pinout         |-> po,
      mode           |-> DATA_8,
      output_enabled |-> ~po.RWn,
      line_val       |-> [i \in 0..2 |-> IF i = 0 THEN <<>> ELSE Spaces(LineWidth)],
      hw_pin         |-> [ D_dir |-> IF po.RWn THEN "IN" ELSE "OUT",
                           D     |-> 0,
                           RWn   |-> IF po.RWn THEN 1 ELSE 0,
                           E     |-> 1,
                           RS    |-> 1 ] ]

\* if self.hw_pin.RWn != None: self.hw_pin.RWn.low()
RWn_low_if_wired(self) == IF self.pinout.RWn THEN pin_low(self, "RWn") ELSE self

\* if self.hw_pin.RWn != None: self.hw_pin.RWn.high()
RWn_high_if_wired(self) == IF self.pinout.RWn THEN pin_high(self, "RWn") ELSE self

\* a faulty variant: releasing the bus leaves output_enabled as it was
en_gpio_out_stale_flag(self, enable) ==
    IF enable
    THEN config_D_out(RWn_low_if_wired([self EXCEPT !.output_enabled = TRUE]))
    ELSE config_D_in(RWn_high_if_wired(self))

\* a faulty variant: the data lines are reconfigured before the Read/Write line moves
en_gpio_out_swapped(self, enable) ==
    IF enable
    THEN RWn_low_if_wired(config_D_out([self EXCEPT !.output_enabled = TRUE]))
    ELSE RWn_high_if_wired(config_D_in([self EXCEPT !.output_enabled = FALSE]))

\* a faulty variant: nothing is done when the bus already has the requested direction
en_gpio_out_guarded(self, enable) ==
    IF self.output_enabled = enable THEN self
    ELSE IF enable
    THEN config_D_out(RWn_low_if_wired([self EXCEPT !.output_enabled = TRUE]))
    ELSE config_D_in(RWn_high_if_wired([self EXCEPT !.output_enabled = FALSE]))

en_gpio_out(self, enable) ==
    IF enable
    THEN config_D_out(RWn_low_if_wired([self EXCEPT !.output_enabled = TRUE]))
    ELSE config_D_in(RWn_high_if_wired([self EXCEPT !.output_enabled = FALSE]))

\* a faulty variant: the outputs are never released before a read
read_release_skip(self) == self

\* if self.output_enabled: self.en_gpio_out(False)
read_release(self) == IF self.output_enabled THEN en_gpio_out(self, FALSE) ELSE self

\* data = OR over the data lines of elem.value() << index; E.low(); sleep_us(1)
read_sample(self) ==
    [sleep_us(pin_low(self, "E"), 1) EXCEPT !.ret = <<DataBits(self.d_in, 0, self.pinout.D)>>]

\* a faulty variant: the outputs are released before the RWn pin is looked for
read_late_check(self) ==
    LET s1 == read_release(self)
    IN  IF ~self.pinout.RWn THEN raise(s1, "Exception")
        ELSE read_sample(sleep_us(pin_high(pin_low(pin_high(s1, "RWn"), "RS"), "E"), 1))

read(self) ==
    IF ~self.pinout.RWn THEN raise(self, "Exception")
    ELSE LET s1 == read_release(self)
             s2 == pin_high(s1, "RWn")
             s3 == pin_low(s2, "RS")
             s4 == pin_high(s3, "E")
             s5 == sleep_us(s4, 1)
         IN  read_sample(s5)

\* a faulty variant: the read is repeated once when the busy flag (the top
\* data line) was sampled high
write_busy_check_retry(self) ==
    IF ~self.pinout.RWn THEN self
    ELSE LET r == read(self)
         IN  pin_low(IF self.pinout.D > 0 /\ Bit(r.ret[1], self.pinout.D - 1) = 1
                     THEN read(r) ELSE r, "RWn")

\* if self.pinout.RWn != None: val = self.read(); self.hw_pin.RWn.low()
write_busy_check(self) == IF self.pinout.RWn THEN pin_low(read(self), "RWn") ELSE self

\* if not self.output_enabled: self.en_gpio_out(True)
write_drive(self) == IF ~self.output_enabled THEN en_gpio_out(self, TRUE) ELSE self

\* RS low for a command, high for data
write_RS(self, is_cmd) == IF is_cmd THEN pin_low(self, "RS") ELSE pin_high(self, "RS")

\* a faulty variant: only the lower four bits are presented
write_nibbles_low_only(self, CMD_HI, CMD_LO) == drive_D(self, CMD_LO)

\* the DATA_4 branch: the upper four bits, an Enable pulse, the lower four bits
write_nibbles(self, CMD_HI, CMD_LO) ==
    LET h1 == drive_D(self, CMD_HI)
        h2 == sleep_us(h1, 1)
        h3 == pin_low(h2, "E")
        h4 == sleep_us(h3, 1)
        h5 == pin_high(h4, "E")
    IN  drive_D(h5, CMD_LO)

write_data(self, char) ==
    IF self.mode = DATA_8 THEN drive_D(self, char)
    ELSE IF self.mode = DATA_4 THEN write_nibbles(self, (char \div 16) % 16, char % 16)
    ELSE raise(self, "Exception")

\* sleep_us(1); E.low(); RWn.low() if wired; sleep_us(1 + exe_time)
write_latch(self, exe_time) ==
    IF self.exc # "" THEN self
    ELSE LET s1 == sleep_us(self, 1)
             s2 == pin_low(s1, "E")
             s3 == RWn_low_if_wired(s2)
             s4 == sleep_us(s3, 1 + exe_time)
         IN  [s4 EXCEPT !.ret = <<>>]

write(self, char, is_cmd, exe_time) ==
    LET s1 == write_busy_check(self)
        s2 == write_drive(s1)
        s3 == write_RS(s2, is_cmd)
        s4 == pin_high(s3, "E")
        s5 == write_data(s4, char)
    IN  write_latch(s5, exe_time)

do_cmd(self, name) == write(self, COMMANDS[name].opcode, TRUE, COMMANDS[name].duration)

start(self) == do_cmd(do_cmd(self, "DISPLAY_ON"), "CURSOR_HOME")

clear(self) == do_cmd(self, "DISPLAY_CLEAR")

put_char(self, char) == write(self, ord(char), FALSE, cmd_pair_index(COMMANDS["DEFAULT"], 0))

\* a faulty variant: both lines are addressed at the start of line 1
set_line_row1_only(self, lineNo) ==
    IF lineNo \notin {1, 2} THEN raise(self, "ValueError")
    ELSE write(self, BitOr(COMMANDS["DDRAM_SET"].opcode, L1_START), TRUE,
               COMMANDS["DDRAM_SET"].duration)

\* a faulty variant: the line number is not validated
set_line_unchecked(self, lineNo) ==
    write(self,
          IF lineNo = 1 THEN BitOr(COMMANDS["DDRAM_SET"].opcode, L1_START)
          ELSE BitOr(COMMANDS["DDRAM_SET"].opcode, L2_START),
          TRUE, COMMANDS["DDRAM_SET"].duration)

set_line(self, lineNo) ==
    IF lineNo \notin {1, 2} THEN raise(self, "ValueError")
    ELSE LET DRAM_ADDR_CMD ==
                 IF lineNo = 1 THEN BitOr(COMMANDS["DDRAM_SET"].opcode, L1_START)
                 ELSE BitOr(COMMANDS["DDRAM_SET"].opcode, L2_START)
         IN  write(self, DRAM_ADDR_CMD, TRUE, COMMANDS["DDRAM_SET"].duration)

(***************************************************************************)
(* What a recorded statement sent to the controller: one entry per falling *)
(* edge of E with R/W' low, <<RS, data lines, microseconds slept before    *)
(* the next rising edge of E>>.                                            *)
(***************************************************************************)
PinsBefore(hw0, tr, i) == IF i = 1 THEN hw0 ELSE tr[i - 1].pins

IsLatch(hw0, tr, i) ==
    /\ tr[i].ev = "E"
    /\ tr[i].arg = 0
    /\ PinsBefore(hw0, tr, i).E = 1
    /\ tr[i].pins.RWn = 0

RECURSIVE WaitAfter(_, _)
WaitAfter(tr, i) ==
    IF i > Len(tr) \/ (tr[i].ev = "E" /\ tr[i].arg = 1) THEN 0
    ELSE (IF tr[i].ev = "sleep_us" THEN tr[i].arg ELSE 0) + WaitAfter(tr, i + 1)

DrivenD(hw) == IF hw.D_dir = "OUT" THEN hw.D ELSE 0

RECURSIVE LatchedFrom(_, _, _)
LatchedFrom(hw0, tr, i) ==
    IF i > Len(tr) THEN <<>>
    ELSE (IF IsLatch(hw0, tr, i)
          THEN << <<tr[i].pins.RS, DrivenD(tr[i].pins), WaitAfter(tr, i + 1)>> >>
          ELSE <<>>) \o LatchedFrom(hw0, tr, i + 1)

Latched(hw0, tr) == LatchedFrom(hw0, tr, 1)

(***************************************************************************)
(* The caller and the call stack                                            *)
(***************************************************************************)
DataLineCounts == {0, 4, 5, 8}
Pinouts == [D : DataLineCounts, RWn : BOOLEAN]

\* Levels the controller may put on the data lines while the host reads them
BusLevels == {0, 255}

\* Arguments the caller passes
WriteBytes == {0, 1, 15, 90, 128, 165, 240, 255}
ExeTimes == {0, 37}
LineNos == 0 .. 3
\* the caller's texts: the empty one and "ABAB.." of TextLen characters
TextLen == 2
RECURSIVE ABAB(_)
ABAB(n) == IF n = 0 THEN <<>> ELSE Append(ABAB(n - 1), IF n % 2 = 1 THEN "A" ELSE "B")
Texts == {<<>>, ABAB(TextLen)}

NoCall == [op |-> "", args |-> <<>>]

Frame(proc, line, lineNo, string, typingEn) ==
    [proc |-> proc, line |-> line, lineNo |-> lineNo, string |-> string,
     typingEn |-> typingEn, i |-> 0]

Self(din) ==
    [ pinout |-> pinout, mode |-> mode, output_enabled |-> output_enabled,
      line_val |-> line_val, hw_pin |-> hw_pin, lcd |-> lcd,
      trace |-> <<>>, exc |-> "", ret |-> <<>>, d_in |-> din ]

Snapshot ==
    [ mode |-> mode, output_enabled |-> output_enabled,
      line_val |-> line_val, hw_pin |-> hw_pin, lcd |-> lcd ]

Constructed(po, chip) ==
    LET obj == Construct(po)
    IN  /\ pinout = obj.pinout
        /\ mode = obj.mode
        /\ output_enabled = obj.output_enabled
        /\ line_val = obj.line_val
        /\ hw_pin = obj.hw_pin
        /\ lcd = chip
        /\ stack = <<>>
        /\ trace = <<>>
        /\ xfers = <<>>
        /\ call = NoCall
        /\ pre = [ mode |-> obj.mode, output_enabled |-> obj.output_enabled,
                   line_val |-> obj.line_val, hw_pin |-> obj.hw_pin, lcd |-> chip ]
        /\ exc = ""
        /\ ret = <<>>
        /\ was_reset = FALSE

Init == \E po \in Pinouts : Constructed(po, LcdDetached)

Idle == call = NoCall
Done == call # NoCall /\ stack = <<>>
Top == stack[Len(stack)]
At(proc, line) == stack # <<>> /\ Top.proc = proc /\ Top.line = line

\* The object after a statement: s is the object the statement's operators made
Effect(s) ==
    /\ mode' = s.mode
    /\ output_enabled' = s.output_enabled
    /\ line_val' = s.line_val
    /\ hw_pin' = s.hw_pin
    /\ lcd' = s.lcd
    /\ trace' = s.trace
    /\ xfers' = xfers \o Latched(hw_pin, s.trace)
    /\ ret' = s.ret
    /\ exc' = s.exc
    /\ UNCHANGED pinout

\* The caller invokes a method
Invoked(op, args) ==
    /\ Idle
    /\ call' = [op |-> op, args |-> args]
    /\ pre' = Snapshot

\* A method that runs as one statement
Invoke(op, args, s) ==
    /\ Invoked(op, args)
    /\ Effect(s)
    /\ UNCHANGED <<stack, was_reset>>

\* A method that runs statement by statement
Enter(op, args, line, lineNo, string, typingEn) ==
    /\ Invoked(op, args)
    /\ stack' = <<Frame(op, line, lineNo, string, typingEn)>>
    /\ UNCHANGED <<pinout, mode, output_enabled, line_val, hw_pin, lcd, trace, xfers,
                   exc, ret, was_reset>>

Goto(line) == stack' = [stack EXCEPT ![Len(stack)].line = line]
Push(line, proc, entry, lineNo, string, typingEn) ==
    stack' = Append([stack EXCEPT ![Len(stack)].line = line],
                    Frame(proc, entry, lineNo, string, typingEn))
Pop == stack' = SubSeq(stack, 1, Len(stack) - 1)

\* A statement of a method in progress; an exception it raises is caught
\* nowhere and unwinds every frame
Stmt(s, next) ==
    /\ Effect(s)
    /\ IF s.exc # "" THEN stack' = <<>> ELSE next
    /\ UNCHANGED <<call, pre, was_reset>>

\* A statement that touches no line: only the call stack moves
Control(next) ==
    /\ next
    /\ trace' = <<>>
    /\ UNCHANGED <<pinout, mode, output_enabled, line_val, hw_pin, lcd, xfers,
                   call, pre, exc, ret, was_reset>>

Read == \E din \in BusLevels : Invoke("read", <<>>, read(Self(din)))

Write ==
    \E din \in BusLevels, char \in WriteBytes, is_cmd \in BOOLEAN, exe_time \in ExeTimes :
        Invoke("write", <<char, is_cmd, exe_time>>, write(Self(din), char, is_cmd, exe_time))

EnGpioOut ==
    \E enable \in BOOLEAN : Invoke("en_gpio_out", <<enable>>, en_gpio_out(Self(0), enable))

SetLine ==
    \E din \in BusLevels, lineNo \in LineNos :
        Invoke("set_line", <<lineNo>>, set_line(Self(din), lineNo))

Start == \E din \in BusLevels : Invoke("start", <<>>, start(Self(din)))

Clear == \E din \in BusLevels : Invoke("clear", <<>>, clear(Self(din)))

(***************************************************************************)
(* reset(), one statement per step                                          *)
(***************************************************************************)
Reset == Enter("reset", <<>>, 138, 0, <<>>, FALSE)

\* a faulty variant: any count other than 4 is taken for 8
reset_138_unchecked ==
    /\ At("reset", 138)
    /\ Stmt(Self(0), IF pinout.D = 4 THEN Goto(148) ELSE Goto(139))

reset_138 ==
    /\ At("reset", 138)
    /\ Stmt(IF pinout.D \notin {8, 4} THEN raise(Self(0), "Exception") ELSE Self(0),
            IF pinout.D = 8 THEN Goto(139) ELSE Goto(148))

reset_139 ==
    /\ At("reset", 139)
    /\ \E din \in BusLevels : Stmt(write(Self(din), 48, TRUE, 4100), Goto(140))

reset_140 ==
    /\ At("reset", 140)
    /\ \E din \in BusLevels : Stmt(write(Self(din), 48, TRUE, 100), Goto(141))

reset_141 ==
    /\ At("reset", 141)
    /\ \E din \in BusLevels : Stmt(write(Self(din), 48, TRUE, 100), Goto(143))

reset_143 ==
    /\ At("reset", 143)
    /\ \E din \in BusLevels : Stmt(do_cmd(Self(din), "FUNCSEL_8BIT"), Goto(144))

reset_144 ==
    /\ At("reset", 144)
    /\ Stmt([Self(0) EXCEPT !.mode = DATA_8], Goto(161))

reset_148 ==
    /\ At("reset", 148)
    /\ \E din \in BusLevels : Stmt(write(Self(din), 3, TRUE, 4100), Goto(149))

reset_149 ==
    /\ At("reset", 149)
    /\ \E din \in BusLevels : Stmt(write(Self(din), 3, TRUE, 100), Goto(150))

reset_150 ==
    /\ At("reset", 150)
    /\ \E din \in BusLevels : Stmt(write(Self(din), 2, TRUE, 100), Goto(151))

reset_151 ==
    /\ At("reset", 151)
    /\ \E din \in BusLevels : Stmt(write(Self(din), 2, TRUE, 100), Goto(153))

reset_153 ==
    /\ At("reset", 153)
    /\ \E din \in BusLevels : Stmt(do_cmd(Self(din), "FUNCSEL_4BIT"), Goto(155))

\* a faulty variant: the mode is left as it was
reset_155_skip ==
    /\ At("reset", 155)
    /\ Stmt(Self(0), Goto(161))

reset_155 ==
    /\ At("reset", 155)
    /\ Stmt([Self(0) EXCEPT !.mode = DATA_4], Goto(161))

\* a faulty variant: the baseline turns the display on instead of off
reset_161_display_on ==
    /\ At("reset", 161)
    /\ \E din \in BusLevels : Stmt(do_cmd(Self(din), "DISPLAY_ON"), Goto(162))

reset_161 ==
    /\ At("reset", 161)
    /\ \E din \in BusLevels : Stmt(do_cmd(Self(din), "DISPLAY_OFF"), Goto(162))

reset_162 ==
    /\ At("reset", 162)
    /\ \E din \in BusLevels : Stmt(do_cmd(Self(din), "DISPLAY_CLEAR"), Goto(163))

reset_163 ==
    /\ At("reset", 163)
    /\ \E din \in BusLevels : Stmt(do_cmd(Self(din), "MODE_AUTOINC"), Goto(164))

\* reset() returns
reset_164 ==
    /\ At("reset", 164)
    /\ Pop
    /\ was_reset' = TRUE
    /\ trace' = <<>>
    /\ UNCHANGED <<pinout, mode, output_enabled, line_val, hw_pin, lcd, xfers,
                   call, pre, exc, ret>>

(***************************************************************************)
(* put_line(lineNo, string, typingEn)                                       *)
(***************************************************************************)
PutLine ==
    \E lineNo \in LineNos, string \in Texts, typingEn \in BOOLEAN :
        Enter("put_line", <<lineNo, string, typingEn>>, 342, lineNo, string, typingEn)

put_line_342 ==
    /\ At("put_line", 342)
    /\ \E din \in BusLevels : Stmt(set_line(Self(din), Top.lineNo), Goto(343))

\* a faulty variant: the mirror stores the text blank-padded to the line width
put_line_343_padded ==
    /\ At("put_line", 343)
    /\ Stmt([Self(0) EXCEPT !.line_val[Top.lineNo] =
                Top.string \o Spaces(LineWidth - Len(Top.string))],
            Goto(345))

put_line_343 ==
    /\ At("put_line", 343)
    /\ Stmt([Self(0) EXCEPT !.line_val[Top.lineNo] = Top.string], Goto(345))

\* self.put_char(char); if typingEn: sleep_ms(110)
put_line_char(self, char, typingEn) ==
    IF typingEn THEN sleep_ms(put_char(self, char), 110) ELSE put_char(self, char)

\* one iteration of: for char in string
put_line_345 ==
    /\ At("put_line", 345)
    /\ Top.i < Len(Top.string)
    /\ \E din \in BusLevels :
           Stmt(put_line_char(Self(din), Top.string[Top.i + 1], Top.typingEn),
                stack' = [stack EXCEPT ![Len(stack)].i = @ + 1])

\* the loop is exhausted: put_line() returns
put_line_349 ==
    /\ At("put_line", 345)
    /\ Top.i = Len(Top.string)
    /\ Control(Pop)

(***************************************************************************)
(* clear_lin(lineNo)                                                        *)
(***************************************************************************)
ClearLin ==
    \E lineNo \in LineNos :
        Enter("clear_lin", <<lineNo>>, 354, lineNo, <<>>, FALSE)

clear_lin_354 ==
    /\ At("clear_lin", 354)
    /\ Control(Push(355, "put_line", 342, Top.lineNo, Spaces(LineWidth), FALSE))

\* clear_lin() returns
clear_lin_355 ==
    /\ At("clear_lin", 355)
    /\ Control(Pop)

(***************************************************************************)
(* push_line(string, typingEn)                                              *)
(***************************************************************************)
PushLine ==
    \E string \in Texts, typingEn \in BOOLEAN :
        Enter("push_line", <<string, typingEn>>, 360, 0, string, typingEn)

push_line_360 ==
    /\ At("push_line", 360)
    /\ Control(Push(361, "clear_lin", 354, 1, <<>>, FALSE))

\* a faulty variant: the copy of row 2 into row 1 is left out
push_line_361_skip ==
    /\ At("push_line", 361)
    /\ Stmt(Self(0), Goto(362))

push_line_361 ==
    /\ At("push_line", 361)
    /\ Stmt([Self(0) EXCEPT !.line_val[1] = line_val[2]], Goto(362))

push_line_362 ==
    /\ At("push_line", 362)
    /\ Control(Push(364, "put_line", 342, 1, line_val[1], FALSE))

push_line_364 ==
    /\ At("push_line", 364)
    /\ Control(Push(366, "clear_lin", 354, 2, <<>>, FALSE))

push_line_366 ==
    /\ At("push_line", 366)
    /\ Stmt([Self(0) EXCEPT !.line_val[2] = Top.string], Goto(367))

push_line_367 ==
    /\ At("push_line", 367)
    /\ Control(Push(369, "put_line", 342, 2, line_val[2], Top.typingEn))

\* if typingEn: sleep_ms(100); push_line() returns
push_line_369 ==
    /\ At("push_line", 369)
    /\ Stmt(IF Top.typingEn THEN sleep_ms(Self(0), 100) ELSE Self(0), Pop)

(***************************************************************************)
(* The call has returned or raised: the caller is ready for the next one   *)
(***************************************************************************)
Return ==
    /\ Done
    /\ call' = NoCall
    /\ pre' = Snapshot
    /\ trace' = <<>>
    /\ xfers' = <<>>
    /\ exc' = ""
    /\ ret' = <<>>
    /\ UNCHANGED <<pinout, mode, output_enabled, line_val, hw_pin, lcd, stack, was_reset>>

ResetSteps ==
    \/ reset_138 \/ reset_139 \/ reset_140 \/ reset_141 \/ reset_143 \/ reset_144
    \/ reset_148 \/ reset_149 \/ reset_150 \/ reset_151 \/ reset_153 \/ reset_155
    \/ reset_161 \/ reset_162 \/ reset_163 \/ reset_164

LineSteps ==
    \/ put_line_342 \/ put_line_343 \/ put_line_345 \/ put_line_349
    \/ clear_lin_354 \/ clear_lin_355
    \/ push_line_360 \/ push_line_361 \/ push_line_362 \/ push_line_364
    \/ push_line_366 \/ push_line_367 \/ push_line_369

\* The driver on a recording pin double: every method but the line methods
Next ==
    \/ Reset \/ Start \/ Clear \/ SetLine
    \/ Read \/ Write \/ EnGpioOut
    \/ ResetSteps
    \/ Return

Spec == Init /\ [][Next]_vars

\* The driver wired to an LCD controller and used as demo.py uses it: reset()
\* first, then the command surface
InitLcd == \E po \in Pinouts : Constructed(po, LcdPowerOn)

NextLcd ==
    \/ Reset
    \/ (was_reset /\ (Start \/ Clear \/ PutLine \/ ClearLin \/ PushLine))
    \/ ResetSteps \/ LineSteps
    \/ Return

SpecLcd == InitLcd /\ [][NextLcd]_vars

\* The line methods alone, from construction, on the recording pin double
NextLines == PutLine \/ ClearLin \/ PushLine \/ LineSteps \/ Return

SpecLines == Init /\ [][NextLines]_vars

\* Every public method but the raw write(), on the recording pin double
NextApi ==
    \/ Reset \/ Start \/ Clear \/ SetLine \/ Read \/ EnGpioOut
    \/ PutLine \/ ClearLin \/ PushLine
    \/ ResetSteps \/ LineSteps
    \/ Return

SpecApi == Init /\ [][NextApi]_vars

\* The command surface with set_line and read, from construction, without
\* direct calls of en_gpio_out or write
NextSurface ==
    \/ Reset \/ Start \/ Clear \/ SetLine \/ Read
    \/ PutLine \/ ClearLin \/ PushLine
    \/ ResetSteps \/ LineSteps
    \/ Return

SpecSurface == Init /\ [][NextSurface]_vars

(***************************************************************************)
(* Properties                                                               *)
(***************************************************************************)
\* a mirror row as the display shows it: blank-padded to the line width
Pad16(t) == t \o Spaces(LineWidth - Len(t))

RowStart(n) == IF n = 1 THEN L1_START ELSE L2_START

\* the first LineWidth cells of DDRAM row n hold the characters of mirror row n
MirrorMatchesLcd ==
    \A n \in {1, 2}, i \in 1 .. LineWidth :
        lcd.ddram[RowStart(n) + i - 1] = ord(Pad16(line_val[n])[i])

\* C1: once reset() has completed, whenever the driver rests between calls of
\* the command surface, each mirror row (blank-padded) equals the first 16
\* cells of that row of the controller's display memory.
C1_MirrorEqualsDisplay == (was_reset /\ Idle) => MirrorMatchesLcd

\* the call in progress has returned normally
Returned(op) == Done /\ exc = "" /\ call.op = op

\* C2 as stated: both mirror rows are exactly 16 characters wide in every state.
C2_RowsAlways16 == \A n \in {1, 2} : Len(line_val[n]) = LineWidth

\* C2 amended: a mirror row is as wide as the text last written to it:
\* put_line(n, t) leaves row n Len(t) wide, clear_lin(n) leaves it 16 wide,
\* push_line(t) leaves row 1 as wide as row 2 was and row 2 Len(t) wide; no
\* row is ever wider than 16.
C2_RowWidths ==
    /\ \A n \in {1, 2} : Len(line_val[n]) <= LineWidth
    /\ Returned("put_line") => Len(line_val[call.args[1]]) = Len(call.args[2])
    /\ Returned("clear_lin") => Len(line_val[call.args[1]]) = LineWidth
    /\ Returned("push_line") =>
           /\ Len(line_val[1]) = Len(pre.line_val[2])
           /\ Len(line_val[2]) = Len(call.args[1])

\* C2 witness: put_line has returned and left a row narrower than 16
C2_Witness ==
    /\ Returned("put_line")
    /\ Len(call.args[2]) = TextLen
    /\ Len(line_val[call.args[1]]) < LineWidth

\* C3: push_line(t) leaves the mirror as (old row 2, t); put_line(n, t) sets
\* row n to t and leaves the other row unchanged.
C3_PushShiftsPutSets ==
    /\ Returned("push_line") =>
           /\ line_val[1] = pre.line_val[2]
           /\ line_val[2] = call.args[1]
    /\ Returned("put_line") =>
           /\ line_val[call.args[1]] = call.args[2]
           /\ line_val[3 - call.args[1]] = pre.line_val[3 - call.args[1]]

\* C3 witness: a push_line has moved a row-2 text that differed from row 1
\* and from the new text into row 1
C3_Witness ==
    /\ Returned("push_line")
    /\ pre.line_val[2] = ABAB(TextLen)
    /\ pre.line_val[1] # pre.line_val[2]
    /\ call.args[1] = <<>>
    /\ line_val[1] = ABAB(TextLen)
    /\ line_val[2] = <<>>

\* the operations of a recorded statement: <<line, level or argument>>
Events(tr) == [i \in 1 .. Len(tr) |-> <<tr[i].ev, tr[i].arg>>]

\* the places of a recorded statement where the data lines are reconfigured
Reconfigs(tr) == {i \in 1 .. Len(tr) : tr[i].ev = "D_dir"}

\* C4 as stated: every reset() on 4 data lines, a repeated one included,
\* sends 0x3, 0x3, 0x2, 0x2 and FUNCSEL_4BIT with one Enable pulse each
\* (the waits are the execution time plus the 1 us of the pulse spacing),
\* and only the three transfers after them as two nibbles.
C4_PrefixOnEightBitPath ==
    (Returned("reset") /\ pinout.D = 4) =>
        xfers = << <<0, 3, 4101>>, <<0, 3, 101>>, <<0, 2, 101>>, <<0, 2, 101>>,
                   <<0, 8, 38>>,
                   <<0, 0, 1>>, <<0, 8, 38>>,
                   <<0, 0, 1>>, <<0, 1, 1501>>,
                   <<0, 0, 1>>, <<0, 6, 5>> >>

\* C5 as stated: on a driver with a Read/Write line, no state has the
\* Read/Write line at read level (high) while the data lines are host outputs.
C5_InputsBeforeReadLevel ==
    pinout.RWn =>
        /\ ~(hw_pin.RWn = 1 /\ hw_pin.D_dir = "OUT")
        /\ \A i \in 1 .. Len(trace) :
               ~(trace[i].pins.RWn = 1 /\ trace[i].pins.D_dir = "OUT")

\* C6: on a driver with a Read/Write line, whenever the data lines are
\* reconfigured as outputs, the Read/Write line has been driven low earlier in
\* the same call and is low at that moment.
C6_WriteLevelBeforeOutputs ==
    pinout.RWn =>
        \A i \in Reconfigs(trace) :
            trace[i].arg = 1 =>
                /\ i > 1
                /\ trace[i - 1].pins.RWn = 0
                /\ \E j \in 1 .. (i - 1) : trace[j].ev = "RWn" /\ trace[j].arg = 0

\* C6 witness: a write() has turned released data lines into outputs
C6_Witness ==
    /\ Returned("write")
    /\ pinout.RWn
    /\ pre.hw_pin.D_dir = "IN"
    /\ \E i \in Reconfigs(trace) : trace[i].arg = 1 /\ trace[i - 1].pins.D_dir = "IN"

\* the operations of write() from the rising edge of E on, in DATA_4 mode
NibblePulses(hi, lo, exe_time) ==
    << <<"E", 1>>, <<"D", hi>>, <<"sleep_us", 1>>, <<"E", 0>>, <<"sleep_us", 1>>,
       <<"E", 1>>, <<"D", lo>>, <<"sleep_us", 1>>, <<"E", 0>> >>
    \o (IF pinout.RWn THEN << <<"RWn", 0>> >> ELSE <<>>)
    \o << <<"sleep_us", 1 + exe_time>> >>

\* C7: in DATA_4 mode write(v) sets Register-Select, then raises E from low,
\* presents v >> 4, waits 1 us, drops E, waits 1 us, raises E, presents
\* v & 0xF, waits 1 us and drops E: the controller is sent exactly the two
\* nibbles, high then low, bit i on data line i.
C7_TwoNibbles ==
    (Returned("write") /\ pre.mode = DATA_4) =>
        LET v == call.args[1]
            rs == IF call.args[2] THEN 0 ELSE 1
            tail == NibblePulses(v \div 16, v % 16, call.args[3])
            k == Len(trace) - Len(tail)
        IN  /\ k >= 1
            /\ trace[k].ev = "RS" /\ trace[k].arg = rs
            /\ trace[k].pins.E = 0
            /\ \A i \in 1 .. Len(tail) : Events(trace)[k + i] = tail[i]
            /\ xfers = << <<rs, v \div 16, 1>>, <<rs, v % 16, 1 + call.args[3]>> >>

\* C7 witness: write(0xA5) in DATA_4 mode has sent 0xA and then 0x5
C7_Witness ==
    /\ Returned("write")
    /\ pre.mode = DATA_4
    /\ call.args[1] = 165
    /\ Len(xfers) = 2
    /\ xfers[1][2] = 10
    /\ xfers[2][2] = 5

ModeOf(po) == IF po.D = 8 THEN DATA_8 ELSE DATA_4

\* C8: once reset() has returned the mode is DATA_8 with 8 data lines and
\* DATA_4 with 4, and only reset()'s assignments (lines 144, 155) change it.
C8_ModeSetByResetOnly ==
    /\ [](was_reset => mode = ModeOf(pinout))
    /\ [][mode' # mode => (At("reset", 144) \/ At("reset", 155))]_vars

\* C8 witness: a line method has run in DATA_4 mode after a reset on 4 lines
C8_Witness ==
    /\ Returned("push_line")
    /\ was_reset
    /\ pinout.D = 4
    /\ mode = DATA_4
    /\ Len(xfers) > 0

C10_SecondCallNoOp ==
    (Returned("en_gpio_out") /\ pre.output_enabled = call.args[1]) => trace = <<>>

\* C10 amended: en_gpio_out has no guard: every call drives the Read/Write
\* line (when wired) and then reconfigures the data lines, once, whatever the
\* direction was; the guard is in the callers: read() reconfigures nothing
\* when the bus is already released, and write() without a Read/Write line
\* reconfigures nothing when the bus is already driven.
C10_GuardIsInCallers ==
    /\ Returned("en_gpio_out") =>
           /\ output_enabled = call.args[1]
           /\ Events(trace) =
                  (IF pinout.RWn THEN << <<"RWn", IF call.args[1] THEN 0 ELSE 1>> >> ELSE <<>>)
                  \o << <<"D_dir", IF call.args[1] THEN 1 ELSE 0>> >>
    /\ (Returned("read") /\ ~pre.output_enabled) => Reconfigs(trace) = {}
    /\ (Returned("read") /\ pre.output_enabled) => Cardinality(Reconfigs(trace)) = 1
    /\ (Returned("write") /\ ~pinout.RWn /\ pre.output_enabled) => Reconfigs(trace) = {}
    /\ (Returned("write") /\ ~pinout.RWn /\ ~pre.output_enabled) =>
           Cardinality(Reconfigs(trace)) = 1

\* C10 witness: en_gpio_out was called with the direction the bus already had
\* and reconfigured the data lines again
C10_Witness ==
    /\ Returned("en_gpio_out")
    /\ pre.output_enabled = call.args[1]
    /\ Reconfigs(trace) # {}

\* the call in progress has changed nothing of the driver and touched no line
Untouched ==
    /\ trace = <<>>
    /\ xfers = <<>>
    /\ hw_pin = pre.hw_pin
    /\ mode = pre.mode
    /\ output_enabled = pre.output_enabled
    /\ line_val = pre.line_val

\* C11: with a data-line count other than 4 or 8, reset() raises its
\* Exception and at no point of the call has a line been driven, a delay been
\* taken or the mode, the bus direction or the mirror changed; with 4 or 8
\* data lines reset() does not raise.
C11_ResetRejectsBadCount ==
    /\ (call.op = "reset" /\ pinout.D \notin {4, 8}) =>
           /\ Untouched
           /\ Done => exc = "Exception"
    /\ (Done /\ call.op = "reset" /\ pinout.D \in {4, 8}) => exc = ""

\* C11 witness: reset() has raised on a driver with 5 data lines
C11_Witness ==
    /\ Done
    /\ call.op = "reset"
    /\ pinout.D = 5
    /\ exc = "Exception"

LineCalls == {"set_line", "put_line", "clear_lin"}

\* C12: set_line, put_line and clear_lin called with a line number outside
\* {1, 2} raise ValueError, and at no point of the call has a line been driven
\* or the mirror (or anything else of the driver) changed; with line 1 or 2
\* they do not raise.
C12_BadLineRejected ==
    /\ (call.op \in LineCalls /\ call.args[1] \notin {1, 2}) =>
           /\ Untouched
           /\ Done => exc = "ValueError"
    /\ (Done /\ call.op \in LineCalls /\ call.args[1] \in {1, 2}) => exc = ""

\* C12 witness: clear_lin(3) has raised in DATA_4 mode
C12_Witness ==
    /\ Done
    /\ call.op = "clear_lin"
    /\ call.args[1] = 3
    /\ mode = DATA_4
    /\ exc = "ValueError"

\* C13: without a Read/Write line read() raises its Exception in every state
\* and changes no line and nothing of the driver; and without a Read/Write
\* line the data lines are outputs after construction and no step other than
\* a direct en_gpio_out call ever takes them away from being outputs.
C13_ReadNeedsRWn ==
    /\ (~pinout.RWn => hw_pin.D_dir = "OUT")
    /\ []((call.op = "read" /\ ~pinout.RWn) =>
              (exc = "Exception" /\ ret = <<>> /\ Untouched))
    /\ [][(~pinout.RWn /\ call'.op # "en_gpio_out" /\ hw_pin.D_dir = "OUT") =>
              /\ hw_pin'.D_dir = "OUT"
              /\ \A i \in 1 .. Len(trace') : trace'[i].pins.D_dir = "OUT"]_vars

\* C13 witness: read() has raised after a reset on 4 data lines without a
\* Read/Write line
C13_Witness ==
    /\ Done
    /\ call.op = "read"
    /\ ~pinout.RWn
    /\ was_reset
    /\ mode = DATA_4
    /\ exc = "Exception"

\* C14: set_line(1) sends exactly one command, 0x80 (0x80 | 0x00), and
\* set_line(2) exactly one command, 0xC0 (0x80 | 0x40), each followed by the
\* wait of DDRAM_SET: in DATA_8 mode with one Enable pulse, bit i on data line
\* i (the whole byte on 8 data lines), in DATA_4 mode as the high nibble and
\* then the low nibble.
C14_SetLineAddress ==
    Returned("set_line") =>
        LET b == IF call.args[1] = 1 THEN 128 ELSE 192
        IN  /\ pre.mode = DATA_8 => xfers = << <<0, DataBits(b, 0, pinout.D), 38>> >>
            /\ (pre.mode = DATA_8 /\ pinout.D = 8) => xfers[1][2] = b
            /\ pre.mode = DATA_4 => xfers = << <<0, b \div 16, 1>>, <<0, b % 16, 38>> >>

\* C14 witness: set_line(2) in DATA_4 mode has sent 0xC and then 0x0
C14_Witness ==
    /\ Returned("set_line")
    /\ call.args[1] = 2
    /\ pre.mode = DATA_4
    /\ xfers = << <<0, 12, 1>>, <<0, 0, 38>> >>

\* C15 as stated: every character sent as data (Register-Select high) by
\* put_line / put_char is followed, before E rises again, by a wait of at
\* least 1 us plus the duration of the DEFAULT entry (37 us).  Stated for
\* DATA_8 mode, where every falling edge of E is one whole transfer.
C15_CharSettles ==
    mode = DATA_8 =>
        \A i \in 1 .. Len(xfers) :
            xfers[i][1] = 1 => xfers[i][3] >= 1 + COMMANDS.DEFAULT.duration

\* the operations of write() from Register-Select on, in DATA_8 mode
BytePulse(rs, v, exe_time) ==
    << <<"RS", rs>>, <<"E", 1>>, <<"D", v>>, <<"sleep_us", 1>>, <<"E", 0>> >>
    \o (IF pinout.RWn THEN << <<"RWn", 0>> >> ELSE <<>>)
    \o << <<"sleep_us", 1 + exe_time>> >>

\* C16 as stated: in DATA_8 mode on 8 data lines write(v, is_cmd, t) sets
\* Register-Select while E is low, then raises E, presents v (bit i on data
\* line i), waits 1 us and drops E: exactly one Enable pulse, at whose falling
\* edge the controller is sent v with the selected Register-Select level.
C16_OnePulse ==
    (Returned("write") /\ pre.mode = DATA_8 /\ pinout.D = 8) =>
        LET v == call.args[1]
            rs == IF call.args[2] THEN 0 ELSE 1
            tail == BytePulse(rs, v, call.args[3])
            k == Len(trace) - Len(tail)
        IN  /\ k >= 0
            /\ \A i \in 1 .. Len(tail) : Events(trace)[k + i] = tail[i]
            /\ trace[k + 1].pins.E = 0
            /\ xfers = << <<rs, v, 1 + call.args[3]>> >>

\* C18 as stated: whenever the driver rests, i.e. after construction and
\* after each completed call, the Enable line is low.
C18_RestsWithEnableLow == (Idle \/ Done) => hw_pin.E = 0

\* the driver as it was when the call in progress began, with the data lines
\* returning d when they are read
PreSelf(d) ==
    [ pinout |-> pinout, mode |-> pre.mode, output_enabled |-> pre.output_enabled,
      line_val |-> pre.line_val, hw_pin |-> pre.hw_pin, lcd |-> pre.lcd,
      trace |-> <<>>, exc |-> "", ret |-> <<>>, d_in |-> d ]

\* the call in progress, run again from where it began with the data lines
\* returning d
Rerun(d) ==
    CASE call.op = "write" ->
             write(PreSelf(d), call.args[1], call.args[2], call.args[3])
      [] call.op = "set_line" -> set_line(PreSelf(d), call.args[1])
      [] call.op = "start" -> start(PreSelf(d))
      [] call.op = "clear" -> clear(PreSelf(d))

Writers == {"write", "set_line", "start", "clear"}

\* the places of a recorded statement where E is raised
Rises(tr) == {i \in 1 .. Len(tr) : tr[i].ev = "E" /\ tr[i].arg = 1}

\* C17: whatever levels the data lines return to the busy-check read, a
\* call that writes performs the same pin operations, reconfigurations and
\* delays, leaves the same driver and returns the same; and a write() reads
\* at most once: E is raised once for the read (with a Read/Write line) and
\* once per Enable pulse of the transfer.
C17_BusyValueIgnored ==
    /\ (Done /\ call.op \in Writers) =>
           \A d \in BusLevels :
               /\ Rerun(d).trace = trace
               /\ Rerun(d).hw_pin = hw_pin
               /\ Rerun(d).output_enabled = output_enabled
               /\ Rerun(d).mode = mode
               /\ Rerun(d).ret = ret
               /\ Rerun(d).exc = exc
    /\ Returned("write") =>
           Cardinality(Rises(trace)) =
               (IF pinout.RWn THEN 1 ELSE 0) + (IF pre.mode = DATA_8 THEN 1 ELSE 2)

\* C17 witness: a write() on 8 data lines with a Read/Write line has
\* returned, and its busy-check read samples different values for different
\* levels on the data lines
C17_Witness ==
    /\ Returned("write")
    /\ pinout.RWn
    /\ pinout.D = 8
    /\ read(PreSelf(0)).ret = <<0>>
    /\ read(PreSelf(255)).ret = <<255>>
    /\ Cardinality(Rises(trace)) = 2

\* the chip is enabled in read mode while the host drives the data lines
Contention(pins) == pins.E = 1 /\ pins.RWn = 1 /\ pins.D_dir = "OUT"

\* C19: on a driver with a Read/Write line, in no state between or inside
\* the calls is E high, the Read/Write line high and the data lines host
\* outputs all at once.
C19_NoContention ==
    pinout.RWn =>
        /\ ~Contention(hw_pin)
        /\ \A i \in 1 .. Len(trace) : ~Contention(trace[i].pins)

\* C19 witness: inside a call the Read/Write line was high while the data
\* lines were still host outputs, with E low
C19_Witness ==
    /\ pinout.RWn
    /\ call.op = "push_line"
    /\ \E i \in 1 .. Len(trace) :
           /\ trace[i].pins.RWn = 1
           /\ trace[i].pins.D_dir = "OUT"
           /\ trace[i].pins.E = 0

\* the recorded statement released the data lines once and then drove them once
ReleasedThenDriven(tr) ==
    \E i, j \in 1 .. Len(tr) :
        /\ i < j
        /\ Reconfigs(tr) = {i, j}
        /\ tr[i].arg = 0
        /\ tr[j].arg = 1

\* the recorded statement only drove the data lines, once
DrivenOnly(tr) == \E i \in 1 .. Len(tr) : Reconfigs(tr) = {i} /\ tr[i].arg = 1

\* C20 as stated, for a write() that is certainly not the first (reset() has
\* completed before it): on a driver with a Read/Write line the write
\* releases the data lines once and drives them once.
C20_EveryLaterWriteSwapsTwice ==
    (Returned("write") /\ pinout.RWn /\ was_reset) => ReleasedThenDriven(trace)

\* C20 amended: output_enabled is true exactly when the data lines are
\* outputs, after construction and after every call; on a driver with a
\* Read/Write line a write() entered with the bus driven releases it once and
\* drives it once, and a write() entered with the bus released (the first
\* one, or one after a read() or en_gpio_out(False)) only drives it, once.
C20_DirectionTracked ==
    /\ output_enabled <=> hw_pin.D_dir = "OUT"
    /\ (Returned("write") /\ pinout.RWn) =>
           IF pre.output_enabled THEN ReleasedThenDriven(trace) ELSE DrivenOnly(trace)

\* C20 witness: after a reset, a write() that followed a read() has only
\* driven the data lines
C20_Witness ==
    /\ Returned("write")
    /\ pinout.RWn
    /\ was_reset
    /\ ~pre.output_enabled
    /\ DrivenOnly(trace)
====
